---- MODULE Spec2Model ----
(***************************************************************************)
(* Model of the MeshMind C API (cpp/src/core.cpp): an opaque detector      *)
(* handle that owns an embedded Python interpreter, a reference to the     *)
(* engine object (AutoMesher), a last-error string and a cache of the      *)
(* detections marshalled by the most recent meshmind_detect.               *)
(***************************************************************************)
EXTENDS Integers, Sequences, FiniteSets, TLC

(* ---------------- bounds of the model ---------------- *)
MaxHandles == 2      \* detector structs the heap can hold
MaxDet == 2          \* longest detections list the engine holds
BufLen == 2          \* length of the caller's result array

(* ---------------- program constants (core.h) ---------------- *)
MESHMIND_SUCCESS == 0
MESHMIND_ERROR_LOAD == -2
MESHMIND_ERROR_DETECT == -3
MESHMIND_ERROR_EXPORT == -4
MESHMIND_ERROR_INVALID_PARAM == -5
FeatureIdSize == 256

NULL == 0
Handles == 1..MaxHandles
NULLP == "NULL"

Min(a, b) == IF a < b THEN a ELSE b

(* ---------------- the caller's inputs ---------------- *)
\* paths handed to load_target / add_template: a null pointer, a file the
\* engine can read, a file that does not exist
InPaths == {NULLP, "target.stl", "missing.stl"}
\* paths handed to the exports: a null pointer, a writable place, one that is not
OutPaths == {NULLP, "out", "unwritable"}
\* max_results values: negative, zero, and every capacity the array allows
Capacities == -1..BufLen
\* (results == NULL, max_results) pairs: every capacity with the caller's
\* array, and a null array
DetectArgs == {<<FALSE, c>> : c \in Capacities} \cup {<<TRUE, BufLen>>}

(* ---------------- the engine (Python side) ---------------- *)
\* three kinds of elements of AutoMesher.detections
Wheel == [ok |-> TRUE, feature_id |-> <<"w", "h">>,
          transform |-> <<<<1, 0, 0, 5>>, <<0, 1, 0, 6>>, <<0, 0, 1, 7>>, <<0, 0, 0, 1>>>>,
          confidence |-> 90, meta |-> "radius", radius |-> 3]
Mirror == [ok |-> TRUE, feature_id |-> <<"m">>,
           transform |-> <<<<0, 1, 0, 2>>, <<1, 0, 0, 0>>, <<0, 0, 1, 4>>, <<0, 0, 0, 1>>>>,
           confidence |-> 50, meta |-> "absent", radius |-> 0]
\* an element without a feature_id attribute: reading it raises
Broken == [ok |-> FALSE, feature_id |-> <<>>,
           transform |-> <<<<0, 0, 0, 0>>, <<0, 0, 0, 0>>, <<0, 0, 0, 0>>, <<0, 0, 0, 0>>>>,
           confidence |-> 0, meta |-> "absent", radius |-> 0]
EngineDets == {Wheel, Mirror, Broken}
\* n readable elements, the two kinds alternating from first
Readable(first, n) ==
    [i \in 1..n |-> IF i % 2 = 1 THEN first ELSE IF first = Wheel THEN Mirror ELSE Wheel]
\* the lists the engine may hold. The loop of meshmind_detect treats every
\* element alike, stops at the first one it cannot read and never looks
\* past it, so a list is readable elements with at most one unreadable
\* element at its end
DetLists ==
    {Readable(f, n) : f \in {Wheel, Mirror}, n \in 0..MaxDet}
    \cup {Append(Readable(f, n), Broken) : f \in {Wheel, Mirror}, n \in 0..(MaxDet - 1)}

\* the engine object right after AutoMesher()
FreshEngine == [target |-> FALSE, detections |-> <<>>]

\* AutoMesher.load_target(path): raises for a file that cannot be read
EngineLoadRaises(path) == path # "target.stl"
\* reading AutoMesher.detections / generate_refinement need a loaded target
EngineNeedsTarget(e) == ~e.target
\* export_snappy_dict / export_config raise when the output cannot be written
EngineWriteRaises(path) == path # "out"

(* ---------------- MeshMindDetection marshalling ---------------- *)
Junk == [junk |-> TRUE]     \* an array slot the library never wrote

\* strncpy(result.feature_id, id, sizeof(result.feature_id) - 1) after memset 0
CopyFeatureId(id) == SubSeq(id, 1, Min(Len(id), FeatureIdSize - 1))
\* result.transform[r * 4 + c] = transform_buf(r, c)
FlattenTransform(t) == [k \in 0..15 |-> t[(k \div 4) + 1][(k % 4) + 1]]
\* radius from region_metadata["radius"] when present, else the memset 0
ExtractRadius(d) == IF d.meta = "radius" THEN d.radius ELSE 0
Marshal(d) ==
    LET tr == FlattenTransform(d.transform)
    IN [feature_id |-> CopyFeatureId(d.feature_id),
        transform |-> tr,
        position |-> <<tr[3], tr[7], tr[11]>>,
        confidence |-> d.confidence,
        radius |-> ExtractRadius(d)]

(* ---------------- state ---------------- *)
VARIABLES
    interp,     \* TRUE while the embedded interpreter is initialized
    crashed,    \* TRUE once undefined behaviour has killed the process
    det,        \* heap of MeshMindDetector_t structs, by handle
    valid,      \* handles returned by create and not yet destroyed
    eng,        \* state of the AutoMesher object inside the interpreter
    buf,        \* the caller's MeshMindDetection array
    call,       \* the most recent API call and what it returned
    trace       \* interpreter / engine operations made by that call, in order

vars == <<interp, crashed, det, valid, eng, buf, call, trace>>

\* struct MeshMindDetector_t; alloc tells whether the struct is on the heap
FreeDet == [alloc |-> FALSE, guard |-> FALSE, mesher |-> FALSE,
            last_error |-> "", cached_detections |-> <<>>]

Call(op, h, argok, cap, ret, str, raised) ==
    [op |-> op, h |-> h, argok |-> argok, cap |-> cap, ret |-> ret,
     str |-> str, raised |-> raised]

Init ==
    /\ interp = FALSE
    /\ crashed = FALSE
    /\ det = [h \in Handles |-> FreeDet]
    /\ valid = {}
    /\ eng = FreshEngine
    /\ buf = [i \in 0..(BufLen - 1) |-> Junk]
    /\ call = Call("none", NULL, TRUE, 0, 0, "", "")
    /\ trace = <<>>

(* ---------------- meshmind_create_detector ---------------- *)
\* operator new: the lowest free slot of the heap
NewDetector == CHOOSE h \in Handles : ~det[h].alloc /\ \A g \in Handles : g < h => det[g].alloc

\* importOk: whether "import meshmind.sdk.mesher" and AutoMesher() succeed
meshmind_create_detector(importOk) ==
    /\ ~crashed
    /\ \E h \in Handles : ~det[h].alloc
    /\ LET h == NewDetector
       IN IF interp
          THEN \* scoped_interpreter(): "The interpreter is already running",
               \* caught as std::exception; the struct is never deleted
               /\ det' = [det EXCEPT ![h] = [FreeDet EXCEPT !.alloc = TRUE]]
               /\ UNCHANGED <<interp, valid, eng>>
               /\ call' = Call("create", NULL, TRUE, 0, 0, "", "already running")
               /\ trace' = <<"new_detector", "initialize_fails">>
          ELSE IF ~importOk
          THEN \* error_already_set from import: return nullptr with the
               \* interpreter started and the struct and the guard never deleted
               /\ det' = [det EXCEPT ![h] = [FreeDet EXCEPT !.alloc = TRUE, !.guard = TRUE]]
               /\ interp' = TRUE
               /\ UNCHANGED <<valid, eng>>
               /\ call' = Call("create", NULL, TRUE, 0, 0, "", "ImportError")
               /\ trace' = <<"new_detector", "initialize", "import_fails">>
          ELSE /\ det' = [det EXCEPT ![h] = [alloc |-> TRUE, guard |-> TRUE, mesher |-> TRUE,
                                             last_error |-> "", cached_detections |-> <<>>]]
               /\ interp' = TRUE
               /\ valid' = valid \cup {h}
               /\ eng' = FreshEngine
               /\ call' = Call("create", h, TRUE, 0, 0, "", "")
               /\ trace' = <<"new_detector", "initialize", "import", "AutoMesher">>
    /\ UNCHANGED <<crashed, buf>>

(* ---------------- meshmind_destroy_detector ---------------- *)
\* the statements of the body, in program order: delete detector->guard runs
\* ~scoped_interpreter (finalize); delete detector runs ~py::object on mesher
DestroySteps == <<"finalize", "decref_mesher", "free_detector">>

\* ub: what the Py_DECREF of mesher does when it runs with no interpreter
meshmind_destroy_detector(h, ub) ==
    /\ ~crashed
    /\ IF h = NULL
       THEN /\ ub = "benign"
            /\ UNCHANGED <<interp, crashed, det, valid, eng>>
            /\ call' = Call("destroy", NULL, TRUE, 0, 0, "", "")
            /\ trace' = <<>>
       ELSE /\ h \in valid
            /\ interp' = FALSE
            /\ eng' = FreshEngine
            /\ valid' = valid \ {h}
            /\ call' = Call("destroy", h, TRUE, 0, 0, "", "")
            /\ IF ub = "crash"
               THEN /\ crashed' = TRUE
                    /\ det' = [det EXCEPT ![h].guard = FALSE]
                    /\ trace' = SubSeq(DestroySteps, 1, 2)
               ELSE /\ crashed' = FALSE
                    /\ det' = [det EXCEPT ![h] = FreeDet]
                    /\ trace' = DestroySteps
    /\ UNCHANGED buf

(* ---------------- meshmind_get_error ---------------- *)
\* variant: the null check answers with an empty string
meshmind_get_error_NullEmpty(h) ==
    IF h = NULL THEN "" ELSE det[h].last_error

meshmind_get_error(h) ==
    IF h = NULL THEN "Invalid detector handle" ELSE det[h].last_error

GetError(h) ==
    /\ ~crashed
    /\ call' = Call("get_error", h, TRUE, 0, 0, meshmind_get_error(h), "")
    /\ trace' = <<>>
    /\ UNCHANGED <<interp, crashed, det, valid, eng, buf>>

(* ---------------- meshmind_load_target ---------------- *)
InvalidPathArgs(h, path) == h = NULL \/ path = NULLP

meshmind_load_target(h, path, ds) ==
    /\ ~crashed
    /\ IF InvalidPathArgs(h, path)
       THEN /\ ds = <<>>
            /\ call' = Call("load_target", h, path # NULLP, 0, MESHMIND_ERROR_INVALID_PARAM, "", "")
            /\ trace' = <<>>
            /\ UNCHANGED <<det, eng>>
       ELSE /\ trace' = <<"py.load_target">>
            /\ IF EngineLoadRaises(path)
               THEN /\ ds = <<>>
                    /\ det' = [det EXCEPT ![h].last_error = "load_target: file not found"]
                    /\ call' = Call("load_target", h, TRUE, 0, MESHMIND_ERROR_LOAD, "",
                                    "load_target: file not found")
                    /\ UNCHANGED eng
               ELSE \* the engine replaces its target; what it then holds in
                    \* .detections is the engine's business
                    /\ eng' = [target |-> TRUE, detections |-> ds]
                    /\ call' = Call("load_target", h, TRUE, 0, MESHMIND_SUCCESS, "", "")
                    /\ UNCHANGED det
    /\ UNCHANGED <<interp, crashed, valid, buf>>

(* ---------------- meshmind_add_template ---------------- *)
\* variant: the stub does what its comment announces ("validate the path
\* exists") and reports a missing template as a load error
meshmind_add_template_Validates(h, path) ==
    /\ ~crashed
    /\ IF InvalidPathArgs(h, path)
       THEN /\ call' = Call("add_template", h, path # NULLP, 0, MESHMIND_ERROR_INVALID_PARAM, "", "")
            /\ UNCHANGED det
       ELSE IF path = "missing.stl"
       THEN /\ call' = Call("add_template", h, TRUE, 0, MESHMIND_ERROR_LOAD, "", "template not found")
            /\ det' = [det EXCEPT ![h].last_error = "template not found"]
       ELSE /\ call' = Call("add_template", h, TRUE, 0, MESHMIND_SUCCESS, "", "")
            /\ det' = [det EXCEPT ![h].last_error = ""]
    /\ trace' = <<>>
    /\ UNCHANGED <<interp, crashed, valid, eng, buf>>

meshmind_add_template(h, path) ==
    /\ ~crashed
    /\ call' = Call("add_template", h, path # NULLP, 0,
                    IF InvalidPathArgs(h, path) THEN MESHMIND_ERROR_INVALID_PARAM
                    ELSE MESHMIND_SUCCESS, "", "")
    /\ trace' = <<>>
    /\ UNCHANGED <<interp, crashed, det, valid, eng, buf>>

(* ---------------- meshmind_detect ---------------- *)
\* variant: the capacity check is off by one
InvalidDetectArgs_OffByOne(h, resultsNull, max_results) ==
    h = NULL \/ resultsNull \/ max_results <= 1

InvalidDetectArgs(h, resultsNull, max_results) ==
    h = NULL \/ resultsNull \/ max_results <= 0

\* variant: the count is not clamped to the capacity
DetectCount_Unclamped(m, max_results) == m

\* int count = std::min((int)py::len(detections), max_results)
DetectCount(m, max_results) == Min(m, max_results)

\* index (from 1) of the first of the first count elements whose attributes
\* cannot be read, 0 when all can
FirstBad(ds, count) ==
    IF \E i \in 1..count : ~ds[i].ok
    THEN CHOOSE i \in 1..count : ~ds[i].ok /\ \A j \in 1..(i - 1) : ds[j].ok
    ELSE 0

\* variant: a detect that succeeds also resets the error string
DetectDone_ClearsError(d, cached) == [d EXCEPT !.cached_detections = cached, !.last_error = ""]

\* the struct after the loop pushed the records in cached
DetectDone(d, cached) == [d EXCEPT !.cached_detections = cached]

meshmind_detect(h, resultsNull, max_results) ==
    /\ ~crashed
    /\ IF InvalidDetectArgs(h, resultsNull, max_results)
       THEN /\ call' = Call("detect", h, ~resultsNull, max_results,
                            MESHMIND_ERROR_INVALID_PARAM, "", "")
            /\ trace' = <<>>
            /\ UNCHANGED <<det, buf>>
       ELSE IF EngineNeedsTarget(eng)
       THEN \* mesher.attr("detections") raises, before cached_detections.clear()
            /\ det' = [det EXCEPT ![h].last_error = "detections: no target loaded"]
            /\ call' = Call("detect", h, TRUE, max_results, MESHMIND_ERROR_DETECT, "",
                            "detections: no target loaded")
            /\ trace' = <<"py.detections">>
            /\ UNCHANGED buf
       ELSE LET ds == eng.detections
                count == DetectCount(Len(ds), max_results)
                bad == FirstBad(ds, count)
                n == IF bad = 0 THEN count ELSE bad - 1
                written == [i \in 1..n |-> Marshal(ds[i])]
            IN /\ buf' = [i \in DOMAIN buf |-> IF i < n THEN written[i + 1] ELSE buf[i]]
               /\ trace' = <<"py.detections">> \o [i \in 1..(IF bad = 0 THEN n ELSE n + 1) |-> "py.item"]
               /\ IF bad = 0
                  THEN /\ det' = [det EXCEPT ![h] = DetectDone(det[h], written)]
                       /\ call' = Call("detect", h, TRUE, max_results, count, "", "")
                  ELSE /\ det' = [det EXCEPT ![h] =
                                    [DetectDone(det[h], written) EXCEPT
                                       !.last_error = "feature_id: no such attribute"]]
                       /\ call' = Call("detect", h, TRUE, max_results, MESHMIND_ERROR_DETECT, "",
                                       "feature_id: no such attribute")
    /\ UNCHANGED <<interp, crashed, valid, eng>>

(* ---------------- the exports ---------------- *)
\* generate_refinement(...) then export_snappy_dict(path, ...), shared by
\* meshmind_export_snappy_dict and meshmind_export_openfoam_case
RefineAndExport(op, h, path, kwargs) ==
    IF InvalidPathArgs(h, path)
    THEN /\ call' = Call(op, h, path # NULLP, 0, MESHMIND_ERROR_INVALID_PARAM, "", "")
         /\ trace' = <<>>
         /\ UNCHANGED det
    ELSE IF EngineNeedsTarget(eng)
    THEN /\ det' = [det EXCEPT ![h].last_error = "generate_refinement: no target loaded"]
         /\ call' = Call(op, h, TRUE, 0, MESHMIND_ERROR_EXPORT, "",
                         "generate_refinement: no target loaded")
         /\ trace' = <<"py.generate_refinement" \o kwargs>>
    ELSE /\ trace' = <<"py.generate_refinement" \o kwargs, "py.export_snappy_dict" \o kwargs>>
         /\ IF EngineWriteRaises(path)
            THEN /\ det' = [det EXCEPT ![h].last_error = "export_snappy_dict: cannot write"]
                 /\ call' = Call(op, h, TRUE, 0, MESHMIND_ERROR_EXPORT, "",
                                 "export_snappy_dict: cannot write")
            ELSE /\ call' = Call(op, h, TRUE, 0, MESHMIND_SUCCESS, "", "")
                 /\ UNCHANGED det

meshmind_export_snappy_dict(h, path) ==
    /\ ~crashed
    /\ RefineAndExport("export_snappy_dict", h, path, "()")
    /\ UNCHANGED <<interp, crashed, valid, eng, buf>>

meshmind_export_openfoam_case(h, path, enable_mrf) ==
    /\ ~crashed
    /\ RefineAndExport("export_openfoam_case", h, path,
                       IF enable_mrf # 0 THEN "(mrf=True)" ELSE "(mrf=False)")
    /\ UNCHANGED <<interp, crashed, valid, eng, buf>>

meshmind_export_ftetwild_sizing(h, path) ==
    /\ ~crashed
    /\ IF InvalidPathArgs(h, path)
       THEN /\ call' = Call("export_ftetwild_sizing", h, path # NULLP, 0,
                            MESHMIND_ERROR_INVALID_PARAM, "", "")
            /\ trace' = <<>>
            /\ UNCHANGED det
       ELSE IF EngineNeedsTarget(eng)
       THEN /\ det' = [det EXCEPT ![h].last_error = "detections: no target loaded"]
            /\ call' = Call("export_ftetwild_sizing", h, TRUE, 0, MESHMIND_ERROR_EXPORT, "",
                            "detections: no target loaded")
            /\ trace' = <<"py.import_ftetwild", "py.FTetWildGenerator", "py.detections">>
       ELSE /\ trace' = <<"py.import_ftetwild", "py.FTetWildGenerator", "py.detections",
                          "py.generate_refinement_config", "py.export_config">>
            /\ IF EngineWriteRaises(path)
               THEN /\ det' = [det EXCEPT ![h].last_error = "export_config: cannot write"]
                    /\ call' = Call("export_ftetwild_sizing", h, TRUE, 0, MESHMIND_ERROR_EXPORT, "",
                                    "export_config: cannot write")
               ELSE /\ call' = Call("export_ftetwild_sizing", h, TRUE, 0, MESHMIND_SUCCESS, "", "")
                    /\ UNCHANGED det
    /\ UNCHANGED <<interp, crashed, valid, eng, buf>>

\* the handles a caller may pass: a live one or the null pointer
CallerHandles == valid \cup {NULL}

Next ==
    \/ \E importOk \in BOOLEAN : meshmind_create_detector(importOk)
    \/ \E h \in CallerHandles, ub \in {"benign", "crash"} : meshmind_destroy_detector(h, ub)
    \/ \E h \in CallerHandles : GetError(h)
    \/ \E h \in CallerHandles, path \in InPaths, ds \in DetLists : meshmind_load_target(h, path, ds)
    \/ \E h \in CallerHandles, path \in InPaths : meshmind_add_template(h, path)
    \/ \E h \in CallerHandles, a \in DetectArgs : meshmind_detect(h, a[1], a[2])
    \/ \E h \in CallerHandles, path \in OutPaths : meshmind_export_snappy_dict(h, path)
    \/ \E h \in CallerHandles, path \in OutPaths, enable_mrf \in {0, 1} :
          meshmind_export_openfoam_case(h, path, enable_mrf)
    \/ \E h \in CallerHandles, path \in OutPaths : meshmind_export_ftetwild_sizing(h, path)

Spec == Init /\ [][Next]_vars

(* ======================= properties ======================= *)
\* the entry points that return a status code or a count
IntOps == {"load_target", "add_template", "detect", "export_snappy_dict",
           "export_openfoam_case", "export_ftetwild_sizing"}

\* a detect step on a live handle with a non-null array in which the engine raised nothing
DetectNonFailing == call'.op = "detect" /\ call'.h # NULL /\ call'.argok /\ call'.raised = ""

\* the step returned n and wrote exactly the first n engine records into slots 0..n-1
DetectWrote(n) ==
    /\ call'.ret = n
    /\ buf' = [i \in DOMAIN buf |-> IF i < n THEN Marshal(eng.detections[i + 1]) ELSE buf[i]]

\* C1 as stated: for every capacity c >= 0 (c = 0 included) and engine match
\* count m, a non-failing detect writes exactly min(c, m) records and returns min(c, m).
C1_AsStated ==
    [][DetectNonFailing /\ call'.cap >= 0
          => DetectWrote(Min(call'.cap, Len(eng.detections)))]_vars

\* C1 amended: for every capacity c >= 1 and engine match count m, a
\* non-failing detect writes exactly min(c, m) records and returns min(c, m)
\* (nothing and 0 when m = 0); with c <= 0 it returns
\* MESHMIND_ERROR_INVALID_PARAM and writes nothing.
C1_DetectWritesMin ==
    [][DetectNonFailing
          => IF call'.cap >= 1
             THEN DetectWrote(Min(call'.cap, Len(eng.detections)))
             ELSE call'.ret = MESHMIND_ERROR_INVALID_PARAM /\ buf' = buf]_vars

\* a detect that truncated: more engine records than capacity, capacity returned
C1_Witness ==
    /\ call.op = "detect" /\ call.h \in valid /\ call.cap >= 1
    /\ Len(eng.detections) > call.cap
    /\ call.ret = call.cap
    /\ buf[0] = Marshal(eng.detections[1])

\* C2 as stated: whenever the most recent operation on a live handle
\* succeeded, meshmind_get_error returns the empty string, also after an
\* earlier failure on that handle.
C2_AsStated ==
    (/\ call.h \in valid
     /\ \/ call.op = "create"
        \/ call.op \in IntOps /\ call.ret >= 0)
    => meshmind_get_error(call.h) = ""

\* C2 amended: a successful create leaves the error string empty, and a
\* successful operation leaves the string exactly as it was: it stays empty
\* while no operation on the handle has failed, and after a failure it keeps
\* that failure's message through later successes.
C2_SuccessKeepsError ==
    [][/\ call'.h \in valid'
       /\ \/ call'.op = "create"
          \/ call'.op \in IntOps /\ call'.ret >= 0
       => IF call'.op = "create"
          THEN det'[call'.h].last_error = ""
          ELSE det'[call'.h].last_error = det[call'.h].last_error]_vars

\* a detect that succeeded on a handle whose earlier failure is still reported
C2_Witness ==
    /\ call.op = "detect" /\ call.h \in valid /\ call.ret >= 0
    /\ meshmind_get_error(call.h) # ""

\* C3: an entry point given the null handle changes no state and calls
\* neither interpreter nor engine; the status-returning ones return
\* MESHMIND_ERROR_INVALID_PARAM, meshmind_get_error returns the fixed
\* invalid-handle string, meshmind_destroy_detector does nothing.
C3_NullHandleSafe ==
    [][call'.h = NULL /\ call'.op \in IntOps \cup {"get_error", "destroy"}
          => /\ UNCHANGED <<interp, crashed, det, valid, eng, buf>>
             /\ trace' = <<>>
             /\ call'.op \in IntOps => call'.ret = -5
             /\ call'.op = "get_error" => call'.str = "Invalid detector handle"]_vars

\* meshmind_get_error was given the null handle while a live handle holds an
\* error message, and answered with the fixed string
C3_Witness ==
    /\ call.h = NULL /\ call.op = "get_error"
    /\ call.str # ""
    /\ valid # {}
    /\ \E h \in valid : det[h].last_error # ""

\* C4: every failing call on a live handle overwrites the handle's error
\* string: right after it meshmind_get_error returns a non-empty message,
\* the one of that call.
C4_FailureSetsError ==
    (call.op \in IntOps /\ call.h \in valid /\ call.ret < 0)
    => /\ meshmind_get_error(call.h) # ""
       /\ meshmind_get_error(call.h) = call.raised

\* C5: a detect that returns n >= 0 has n <= max_results and leaves every
\* array slot of index >= n as it was.
C5_DetectBounded ==
    [][call'.op = "detect" /\ call'.ret >= 0
          => /\ call'.ret <= call'.cap
             /\ \A i \in DOMAIN buf : i >= call'.ret => buf'[i] = buf[i]]_vars

\* a detect returned fewer records than the engine holds and the slot after
\* the last record written does not hold the engine's next record
C5_Witness ==
    /\ call.op = "detect" /\ call.ret >= 0 /\ call.ret < BufLen
    /\ call.ret = call.cap
    /\ Len(eng.detections) > call.ret
    /\ buf[call.ret] # Marshal(eng.detections[call.ret + 1])

\* C6: destroy right after a successful create leaves the process alive with
\* no interpreter running and the handle's struct freed, so that create can
\* run again.
C6_CreateDestroyClean ==
    [][call.op = "create" /\ call.h # NULL /\ call'.op = "destroy" /\ call'.h = call.h
          => ~crashed' /\ ~interp' /\ ~det'[call.h].alloc]_vars

\* C7: detect on a live handle with no target loaded returns a negative
\* value, leaves a message for meshmind_get_error and changes nothing of the
\* handle but the error string.
C7_DetectBeforeLoad ==
    [][call'.op = "detect" /\ call'.h \in valid /\ ~eng.target
          => /\ call'.ret < 0
             /\ det'[call'.h].last_error # ""
             /\ [det'[call'.h] EXCEPT !.last_error = ""] = [det[call'.h] EXCEPT !.last_error = ""]
             /\ UNCHANGED <<interp, crashed, valid, eng, buf>>]_vars

C9_FailedCreateReleases ==
    [][call'.op = "create" /\ call'.h = NULL
          => /\ interp' = interp
             /\ \A h \in Handles : det'[h].alloc = det[h].alloc]_vars

\* C10: in destroy on a live handle the reference to the engine object is
\* released, and before the interpreter is finalized.
C10_MesherBeforeFinalize ==
    (call.op = "destroy" /\ call.h # NULL)
    => \E j \in DOMAIN trace :
          /\ trace[j] = "decref_mesher"
          /\ \A i \in DOMAIN trace : trace[i] = "finalize" => j < i
====
